---------------------------- MODULE Spec2Model ----------------------------
(***************************************************************************)
(* A model of the Recipe-Genie client: the session state held by App       *)
(* (displayed recipes, recipe cache, favorites, weekly plan, shopping      *)
(* list), the handlers that change it, and the pure helpers they use.      *)
(*                                                                         *)
(* Strings that the code only compares (titles, stores, prices, images)    *)
(* are TLA+ strings.  Ingredient texts, which cleanIngredientText takes    *)
(* apart, are sequences of one-character strings.                          *)
(***************************************************************************)
EXTENDS Integers, Sequences, FiniteSets, TLC

VARIABLES
    recipes,          \* App.tsx:43  displayed search results
    shoppingList,     \* App.tsx:44
    recipeCache,      \* App.tsx:46
    filters,          \* App.tsx:48
    isLoading,        \* App.tsx:55
    isLoadingMore,    \* App.tsx:56
    favoriteRecipes,  \* App.tsx:59
    weeklyPlan,       \* App.tsx:60  0 = null, else a reference into planHeap
    planHeap,         \* the day objects of every plan object built so far
    fetches,          \* suspended handleSearch / loadMore continuations
    imageReqs,        \* suspended RecipeCard image requests
    nextId,           \* ids handed out by generateId (geminiService)
    nextItemId,       \* ids handed out for shopping-list items
    lastOp,           \* observer: the handler that ran last
    hist,             \* observer: list handlers run since the list was reset
    storage,          \* localStorage: what each key holds (<<>> = nothing)
    writes,           \* observer: the setItem calls of the last saveWithQuotaCheck
    rawText,          \* an ingredient text handed to cleanIngredientText
    cleaned,          \* what cleanIngredientText gave for rawText, and for that again
    clock,            \* Date.now(), in ticks
    queue,            \* RequestQueue.queue
    processing,       \* RequestQueue.processing
    lastRequestTime,  \* RequestQueue.lastRequestTime
    timer,            \* the setTimeout process() awaits (<<>> = none)
    started,          \* observer: the tasks initiated so far, with their times
    imageTasks        \* the generateRecipeImage tasks run so far

appVars  == <<recipes, recipeCache, filters, isLoading, isLoadingMore,
              favoriteRecipes, weeklyPlan, planHeap, fetches, imageReqs, nextId>>
listVars == <<shoppingList, nextItemId, hist>>
saveVars  == <<storage, writes>>
normVars  == <<rawText, cleaned>>
queueVars == <<clock, queue, processing, lastRequestTime, timer, started>>
taskVars  == <<imageTasks>>
sideVars  == <<saveVars, normVars, queueVars, taskVars>>
vars     == <<appVars, listVars, lastOp, sideVars>>

-----------------------------------------------------------------------------
(* Bounds of the model *)

MaxItemId    == 2   \* shopping-list item ids handed out in one behaviour
MaxRecipeId  == 3   \* recipe ids handed out by generateId in one behaviour
MaxFetches   == 2   \* handleSearch / loadMore continuations in flight
MaxImageReqs == 1   \* image requests in flight
MaxPlans     == 2   \* plans generated in one behaviour
MaxTokens    == 5   \* tokens an ingredient text is put together from
MaxTasks     == 3   \* tasks added to the image queue in one behaviour
MaxClock     == 10  \* ticks the clock is followed for

\* Program constants
MatchThreshold == 9     \* matches.length >= 9
BatchShown     == 9     \* shuffled.slice(0, 9)
MinDelay       == 3     \* minDelay = 300, in ticks of 100 ms

-----------------------------------------------------------------------------
(* Characters *)

LowerSeq == <<"a","b","c","d","e","f","g","h","i","j","k","l","m",
              "n","o","p","q","r","s","t","u","v","w","x","y","z">>
UpperSeq == <<"A","B","C","D","E","F","G","H","I","J","K","L","M",
              "N","O","P","Q","R","S","T","U","V","W","X","Y","Z">>
LowerLetters == {LowerSeq[i] : i \in 1..26}
Digits       == {"0","1","2","3","4","5","6","7","8","9"}
Whitespace   == {" ", "\t"}

ToLower(c) ==
    IF \E i \in 1..26 : UpperSeq[i] = c
    THEN LowerSeq[CHOOSE i \in 1..26 : UpperSeq[i] = c]
    ELSE c

\* Length of the longest prefix of s, read from position p, made of chars of S.
RECURSIVE RunFrom(_, _, _)
RunFrom(s, p, S) ==
    IF p <= Len(s) /\ s[p] \in S THEN 1 + RunFrom(s, p + 1, S) ELSE 0

\* String.prototype.trim
RECURSIVE RunBack(_, _, _)
RunBack(s, q, S) ==
    IF q >= 1 /\ s[q] \in S THEN 1 + RunBack(s, q - 1, S) ELSE 0
TrimBounds(s, a, b) == IF a >= Len(s) THEN <<>> ELSE SubSeq(s, a + 1, Len(s) - b)
Trim(s) == TrimBounds(s, RunFrom(s, 1, Whitespace), RunBack(s, Len(s), Whitespace))

IsPrefixAt(w, s, p) ==
    /\ p + Len(w) - 1 <= Len(s)
    /\ SubSeq(s, p, p + Len(w) - 1) = w

-----------------------------------------------------------------------------
(* cleanIngredientText (types.ts) *)

\* cleaned.replace(/\([^)]*\)/g, ''): every "(" up to the first ")" after it.
RECURSIVE RemoveParens(_)
RemoveParens(s) ==
    IF s = <<>> THEN <<>>
    ELSE IF s[1] = "(" /\ \E j \in 2..Len(s) : s[j] = ")"
         THEN LET j == CHOOSE j \in 2..Len(s) :
                            s[j] = ")" /\ \A k \in 2..(j - 1) : s[k] # ")"
              IN  RemoveParens(SubSeq(s, j + 1, Len(s)))
         ELSE <<s[1]>> \o RemoveParens(Tail(s))

\* cleaned.replace(/[^a-z0-9\s]/g, '')
RemoveSpecial(s) ==
    SelectSeq(s, LAMBDA c : c \in LowerLetters \cup Digits \cup Whitespace)

\* The unit alternatives of quantityRegex in the order the regex tries them
\* (an optional "s" is tried present first).
UnitAlternatives == <<
    <<"g">>, <<"k","g">>, <<"m","l">>, <<"l">>, <<"o","z">>, <<"l","b">>,
    <<"c","u","p","s">>, <<"c","u","p">>, <<"t","s","p">>, <<"t","b","s","p">>,
    <<"p","i","n","c","h">>, <<"b","u","n","c","h">>,
    <<"p","i","e","c","e","s">>, <<"p","i","e","c","e">>,
    <<"s","l","i","c","e","s">>, <<"s","l","i","c","e">>,
    <<"c","a","n","s">>, <<"c","a","n">>, <<"t","i","n","s">>, <<"t","i","n">>,
    <<"b","o","t","t","l","e","s">>, <<"b","o","t","t","l","e">>,
    <<"p","a","c","k","e","t","s">>, <<"p","a","c","k","e","t">>,
    <<"j","a","r","s">>, <<"j","a","r">>,
    <<"c","l","o","v","e","s">>, <<"c","l","o","v","e">>,
    <<"h","e","a","d","s">>, <<"h","e","a","d">>,
    <<"s","t","a","l","k","s">>, <<"s","t","a","l","k">>,
    <<"f","i","l","l","e","t","s">>, <<"f","i","l","l","e","t">> >>

\* quantityRegex = /^([\d\.\/\s]+)?(unit)?\s+(of\s+)?/ : the length of its match
\* at the start of s, 0 when it does not match.  The regex backtracks: the
\* number group is tried longest first and then absent, for each the units in
\* order and then absent; a try succeeds as soon as whitespace follows, because
\* everything after \s+ is optional.
QtyChars == Digits \cup Whitespace \cup {".", "/"}
IsWs(s, p) == p <= Len(s) /\ s[p] \in Whitespace
MinOf(S) == CHOOSE i \in S : \A j \in S : i <= j
MaxOf(S) == CHOOSE i \in S : \A j \in S : j <= i

\* The unit alternatives that match after a number group of length k and are
\* followed by whitespace.
UnitsAt(s, k) ==
    {i \in 1..Len(UnitAlternatives) :
        /\ IsPrefixAt(UnitAlternatives[i], s, k + 1)
        /\ IsWs(s, k + 1 + Len(UnitAlternatives[i]))}

\* Where \s+ starts for a number group of length k (U = UnitsAt(s, k));
\* 0 when the try fails.
WsPosOf(s, k, U) ==
    IF U # {} THEN k + 1 + Len(UnitAlternatives[MinOf(U)])
    ELSE IF IsWs(s, k + 1) THEN k + 1 ELSE 0
WsPos(s, k) == WsPosOf(s, k, UnitsAt(s, k))

\* (of\s+)? read at position e
AfterOf(s, e) ==
    IF IsPrefixAt(<<"o","f">>, s, e) /\ IsWs(s, e + 2)
    THEN e + 2 + RunFrom(s, e + 2, Whitespace)
    ELSE e

\* \s+ read at position q, then (of\s+)?
AfterWs(s, q) == AfterOf(s, q + RunFrom(s, q, Whitespace))

MatchLen(s, Good) == IF Good = {} THEN 0 ELSE AfterWs(s, WsPos(s, MaxOf(Good))) - 1

quantityRegex(s) ==
    MatchLen(s, {k \in 0..RunFrom(s, 1, QtyChars) : WsPos(s, k) # 0})

Lowercase(text) == [i \in 1..Len(text) |-> ToLower(text[i])]
StripQuantity(c) == Trim(SubSeq(c, quantityRegex(c) + 1, Len(c)))
StripLeadingNumbers(c) == Trim(SubSeq(c, RunFrom(c, 1, QtyChars) + 1, Len(c)))
Singularize(c) ==
    IF Len(c) > 3 /\ c[Len(c)] = "s" /\ c[Len(c) - 1] # "s"
    THEN SubSeq(c, 1, Len(c) - 1)
    ELSE c

cleanIngredientText(text) ==
    Singularize(StripLeadingNumbers(StripQuantity(
        RemoveSpecial(RemoveParens(Lowercase(text))))))

-----------------------------------------------------------------------------
(* Records of types.ts and what the oracle can send *)

NoImage == ""       \* Recipe.image is undefined until a picture is attached

TxtOnions2   == <<"2"," ","O","n","i","o","n","s">>
TxtOnion     == <<"o","n","i","o","n">>
TxtCupOnions == <<"1"," ","c","u","p"," ","O","n","i","o","n","s">>
TxtOil       == <<"O","i","l">>

\* Items of an oracle response (a Recipe without its id); mealType is the raw
\* string the response carries.
DishPasta  == [title |-> "Pasta", mealType |-> "Dinner", protein |-> "Chicken",
               prepTimeMinutes |-> 20, difficulty |-> 2,
               ingredients |-> << [item |-> TxtOnions2, store |-> "Aldi", price |-> "$3.50"],
                                  [item |-> TxtOnion,   store |-> "Aldi", price |-> "$1.25"] >>]
DishSalad  == [title |-> "Salad", mealType |-> "Lunch", protein |-> "Vegetarian",
               prepTimeMinutes |-> 10, difficulty |-> 1,
               ingredients |-> << [item |-> TxtCupOnions, store |-> "Aldi", price |-> "$2"],
                                  [item |-> TxtOil,       store |-> "",     price |-> ""] >>]
DishSoup   == [title |-> "Soup", mealType |-> "dinner", protein |-> "Beef",
               prepTimeMinutes |-> 40, difficulty |-> 3,
               ingredients |-> << [item |-> TxtOnion, store |-> "Aldi", price |-> "$1"] >>]
DishPastaB == [title |-> "Pasta", mealType |-> "Dinner", protein |-> "Fish",
               prepTimeMinutes |-> 50, difficulty |-> 4,
               ingredients |-> << [item |-> TxtOil, store |-> "Any", price |-> "$4"] >>]

\* A Recipe: the oracle's item with the id and meal type the service gives it.
MkRecipe(dish, id, mealType) ==
    [id |-> id, title |-> dish.title, mealType |-> mealType, protein |-> dish.protein,
     prepTimeMinutes |-> dish.prepTimeMinutes, difficulty |-> dish.difficulty,
     ingredients |-> dish.ingredients, image |-> NoImage]

DAYS_OF_WEEK == <<"Monday", "Tuesday", "Wednesday", "Thursday", "Friday",
                  "Saturday", "Sunday">>
Days == {DAYS_OF_WEEK[i] : i \in 1..7}
DayIndex(d) == CHOOSE i \in 1..7 : DAYS_OF_WEEK[i] = d

NoSlots == [lunch |-> <<>>, dinner |-> <<>>]

\* Parsed responses of the plan oracle: a day may be missing, a slot may be
\* missing (<<>>), the same dish may fill two slots.
PlanResponses == {
    [d \in {} |-> NoSlots],
    [d \in {"Monday"} |-> [lunch |-> <<DishPastaB>>, dinner |-> <<DishPastaB>>]],
    [d \in {"Monday"} |-> [lunch |-> <<DishSoup>>, dinner |-> <<>>]],
    [d \in {"Monday", "Tuesday"} |->
        IF d = "Monday" THEN [lunch |-> <<DishSalad>>, dinner |-> <<DishPastaB>>]
                        ELSE [lunch |-> <<>>, dinner |-> <<DishSoup>>]],
    [d \in Days |-> IF d = "Sunday" THEN [lunch |-> <<DishSoup>>, dinner |-> <<DishPastaB>>]
                                    ELSE NoSlots] }

\* fetchWeeklyPlan's id processing: every day present in the response keeps its
\* slots, each filled slot gets a fresh id (in day order, lunch first) and the
\* slot's meal type.
fetchWeeklyPlan(data, firstId) ==
    LET Filled == {ds \in (DOMAIN data) \X {"lunch", "dinner"} : data[ds[1]][ds[2]] # <<>>}
        Before(d, slot) ==
            Cardinality({ds \in Filled :
                \/ DayIndex(ds[1]) < DayIndex(d)
                \/ (ds[1] = d /\ ds[2] = "lunch" /\ slot = "dinner")})
    IN  [plan |-> [d \in DOMAIN data |->
                    [lunch  |-> IF data[d].lunch = <<>> THEN <<>>
                                ELSE <<MkRecipe(data[d].lunch[1],
                                                firstId + Before(d, "lunch"), "Lunch")>>,
                     dinner |-> IF data[d].dinner = <<>> THEN <<>>
                                ELSE <<MkRecipe(data[d].dinner[1],
                                                firstId + Before(d, "dinner"), "Dinner")>>]],
         next |-> firstId + Cardinality(Filled)]

\* Object.values(plan) flattened the way Planner walks it: days in key order,
\* lunch before dinner, empty slots skipped.
RECURSIVE PlanRecipesFrom(_, _)
PlanRecipesFrom(plan, i) ==
    IF i > 7 THEN <<>>
    ELSE (IF DAYS_OF_WEEK[i] \in DOMAIN plan
          THEN plan[DAYS_OF_WEEK[i]].lunch \o plan[DAYS_OF_WEEK[i]].dinner
          ELSE <<>>) \o PlanRecipesFrom(plan, i + 1)
PlanRecipes(plan) == PlanRecipesFrom(plan, 1)

\* The plan object the state refers to (<<>> stands for null).
CurrentPlan == IF weeklyPlan = 0 THEN <<>> ELSE <<planHeap[weeklyPlan]>>
CurrentPlanRecipes == IF weeklyPlan = 0 THEN <<>> ELSE PlanRecipes(planHeap[weeklyPlan])

Range(s) == {s[i] : i \in 1..Len(s)}

-----------------------------------------------------------------------------
(* Recipe cache (App.tsx) *)

\* A variant of the updater in which a candidate takes the place of the cached
\* entry with its title.
addToCacheReplace(prev, newRecipes) ==
    LET combined == prev \o newRecipes
        firsts == SelectSeq([i \in 1..Len(combined) |-> i],
                     LAMBDA i : \A j \in 1..(i - 1) : combined[j].title # combined[i].title)
    IN  [k \in 1..Len(firsts) |->
            combined[CHOOSE j \in 1..Len(combined) :
                        /\ combined[j].title = combined[firsts[k]].title
                        /\ \A m \in (j + 1)..Len(combined) :
                              combined[m].title # combined[j].title]]

\* A variant of the updater that keeps only the batch it is given.
addToCacheOverwrite(prev, newRecipes) == newRecipes

\* A variant that drops the whole batch when one of its titles is cached.
addToCacheAllOrNothing(prev, newRecipes) ==
    IF \E i \in 1..Len(prev), j \in 1..Len(newRecipes) : prev[i].title = newRecipes[j].title
    THEN prev
    ELSE prev \o newRecipes

\* The updater addToCache hands to setRecipeCache.
addToCache(prev, newRecipes) ==
    LET existingTitles == {prev[i].title : i \in 1..Len(prev)}
        uniqueNew == SelectSeq(newRecipes, LAMBDA r : r.title \notin existingTitles)
    IN  IF Len(uniqueNew) = 0 THEN prev ELSE prev \o uniqueNew

-----------------------------------------------------------------------------
(* Shopping list (App.tsx) *)

isRecipeInList(list, title) ==
    \E i \in 1..Len(list) :
        \E j \in 1..Len(list[i].contributions) :
            list[i].contributions[j].recipeTitle = title

\* Variants of RemoveRecipe: the emptied items are kept; contributions are
\* matched by recipe id instead of title.
RemoveRecipeKeepEmpty(prev, recipe) ==
    [i \in 1..Len(prev) |->
        [prev[i] EXCEPT !.contributions =
            SelectSeq(@, LAMBDA c : c.recipeTitle # recipe.title)]]
RemoveRecipeById(prev, recipe) ==
    SelectSeq(
        [i \in 1..Len(prev) |->
            [prev[i] EXCEPT !.contributions =
                SelectSeq(@, LAMBDA c : c.recipeId # recipe.id)]],
        LAMBDA item : Len(item.contributions) > 0)

\* A variant that drops every item the recipe contributed to.
RemoveRecipeDropItems(prev, recipe) ==
    SelectSeq(prev, LAMBDA item :
        \A j \in 1..Len(item.contributions) :
            item.contributions[j].recipeTitle # recipe.title)

\* REMOVE LOGIC of toggleShoppingList: the updater given to setShoppingList.
RemoveRecipe(prev, recipe) ==
    SelectSeq(
        [i \in 1..Len(prev) |->
            [prev[i] EXCEPT !.contributions =
                SelectSeq(@, LAMBDA c : c.recipeTitle # recipe.title)]],
        LAMBDA item : Len(item.contributions) > 0)

\* Variant of FindExisting: checked-off items are not merged into.
FindExistingUnchecked(newList, store, normName) ==
    LET hits == {i \in 1..Len(newList) :
                    /\ newList[i].store = store /\ newList[i].name = normName
                    /\ ~newList[i].checked}
    IN  IF hits = {} THEN 0 ELSE CHOOSE i \in hits : \A j \in hits : i <= j

\* newList.findIndex(item => item.store === store && item.name === normName);
\* 0 stands for -1.
FindExisting(newList, store, normName) ==
    LET hits == {i \in 1..Len(newList) :
                    newList[i].store = store /\ newList[i].name = normName}
    IN  IF hits = {} THEN 0 ELSE CHOOSE i \in hits : \A j \in hits : i <= j

\* Variants of MergeInto: the new contribution goes first; the item keeps its
\* checked flag.
MergeIntoFront(item, contribution) ==
    [item EXCEPT !.checked = FALSE,
                 !.contributions = <<contribution>> \o @]
MergeIntoKeepChecked(item, contribution) ==
    [item EXCEPT !.contributions = Append(@, contribution)]

\* A variant that gives an item one contribution per recipe at most.
MergeIntoOnce(item, contribution) ==
    IF \E j \in 1..Len(item.contributions) :
           item.contributions[j].recipeTitle = contribution.recipeTitle
    THEN [item EXCEPT !.checked = FALSE]
    ELSE [item EXCEPT !.checked = FALSE,
                      !.contributions = Append(@, contribution)]

\* "Update existing item"
MergeInto(item, contribution) ==
    [item EXCEPT !.checked = FALSE,
                 !.contributions = Append(@, contribution)]

\* "Create new item"
NewItem(id, normName, store, contribution) ==
    [id |-> id, name |-> normName, store |-> store, checked |-> FALSE,
     contributions |-> <<contribution>>]

\* recipe.ingredients.forEach(...) from ingredient k on; fresh is the next id
\* the random id source hands out.
RECURSIVE AddIngredients(_, _, _, _)
AddIngredients(newList, recipe, k, fresh) ==
    IF k > Len(recipe.ingredients) THEN [list |-> newList, next |-> fresh]
    ELSE LET ing      == recipe.ingredients[k]
             normName == cleanIngredientText(ing.item)
             store    == IF ing.store = "" THEN "Any" ELSE ing.store
             existingItemIndex == FindExisting(newList, store, normName)
             contribution == [recipeId |-> recipe.id, recipeTitle |-> recipe.title,
                              text |-> ing.item, price |-> ing.price]
         IN  IF existingItemIndex >= 1
             THEN AddIngredients(
                      [newList EXCEPT ![existingItemIndex] = MergeInto(@, contribution)],
                      recipe, k + 1, fresh)
             ELSE AddIngredients(
                      Append(newList, NewItem(fresh, normName, store, contribution)),
                      recipe, k + 1, fresh + 1)

\* ADD LOGIC of toggleShoppingList: the updater given to setShoppingList.
AddRecipe(prev, recipe, fresh) == AddIngredients(prev, recipe, 1, fresh)

\* toggleShoppingList called from a render whose shoppingList was `seen`,
\* its updater applied to the list `prev`.
toggleShoppingList(seen, prev, recipe, fresh) ==
    IF isRecipeInList(seen, recipe.title)
    THEN [list |-> RemoveRecipe(prev, recipe), next |-> fresh]
    ELSE AddRecipe(prev, recipe, fresh)

\* Planner.addAllToShoppingList over the slots rs: isRecipeInList and
\* onAddToShoppingList are the props of the render that drew the button, so
\* both read the list `seen` of that render while the updaters chain on `acc`.
RECURSIVE addAllToShoppingList(_, _, _, _)
addAllToShoppingList(seen, acc, rs, fresh) ==
    IF rs = <<>> THEN [list |-> acc, next |-> fresh]
    ELSE IF ~isRecipeInList(seen, Head(rs).title)
         THEN LET r == toggleShoppingList(seen, acc, Head(rs), fresh)
              IN  addAllToShoppingList(seen, r.list, Tail(rs), r.next)
         ELSE addAllToShoppingList(seen, acc, Tail(rs), fresh)

\* Every recipe a RecipeCard is drawn for, in some view.
Displayed == Range(recipes) \cup Range(favoriteRecipes) \cup Range(CurrentPlanRecipes)

Op(name, rs, id, img) == [op |-> name, recipe |-> rs, id |-> id, img |-> img]
\* hist keeps the first three list handlers run since the list was reset and
\* then only that there were more.
Remember(o) == IF Len(hist) < 3 THEN Append(hist, o) ELSE <<Op("more", <<>>, 0, "")>>

ToggleShoppingList ==
    \E recipe \in Displayed :
        LET r == toggleShoppingList(shoppingList, shoppingList, recipe, nextItemId)
            o == Op(IF isRecipeInList(shoppingList, recipe.title) THEN "remove" ELSE "add",
                    <<recipe>>, recipe.id, "")
        IN  /\ r.next <= MaxItemId + 1
            /\ shoppingList' = r.list
            /\ nextItemId' = r.next
            /\ lastOp' = o
            /\ hist' = Remember(o)
            /\ UNCHANGED <<appVars, sideVars>>

AddAllToShoppingList ==
    /\ weeklyPlan # 0
    /\ LET r == addAllToShoppingList(shoppingList, shoppingList, CurrentPlanRecipes,
                                     nextItemId)
           o == Op("addAll", <<>>, 0, "")
       IN  /\ r.next <= MaxItemId + 1
           /\ shoppingList' = r.list
           /\ nextItemId' = r.next
           /\ lastOp' = o
           /\ hist' = Remember(o)
    /\ UNCHANGED <<appVars, sideVars>>

RemoveFromShoppingList ==
    \E i \in 1..Len(shoppingList) :
        LET id == shoppingList[i].id
            o  == Op("removeItem", <<>>, id, "")
        IN  /\ shoppingList' = SelectSeq(shoppingList, LAMBDA item : item.id # id)
            /\ lastOp' = o
            /\ hist' = Remember(o)
            /\ UNCHANGED <<appVars, sideVars, nextItemId>>

toggleShoppingItem(prev, id) ==
    [i \in 1..Len(prev) |->
        IF prev[i].id = id THEN [prev[i] EXCEPT !.checked = ~@] ELSE prev[i]]

ToggleShoppingItem ==
    \E i \in 1..Len(shoppingList) :
        LET id == shoppingList[i].id
            o  == Op("toggleItem", <<>>, id, "")
        IN  /\ shoppingList' = toggleShoppingItem(shoppingList, id)
            /\ lastOp' = o
            /\ hist' = Remember(o)
            /\ UNCHANGED <<appVars, sideVars, nextItemId>>

ClearShoppingList ==
    /\ shoppingList # <<>>
    /\ shoppingList' = <<>>
    /\ lastOp' = Op("clear", <<>>, 0, "")
    /\ hist' = <<>>
    /\ UNCHANGED <<appVars, sideVars, nextItemId>>

\* new RequestQueue(), some time after the epoch.
QueueInit ==
    /\ clock = MinDelay
    /\ queue = <<>>
    /\ processing = FALSE
    /\ lastRequestTime = 0
    /\ timer = <<>>
    /\ started = <<>>

\* Nothing stored and nothing being saved.
STORAGE_KEYS == {"LIST", "FAV", "PLAN", "CACHE"}
SideInit ==
    /\ storage = [k \in STORAGE_KEYS |-> <<>>]
    /\ writes = <<>>
    /\ rawText = <<>>
    /\ cleaned = <<>>
    /\ QueueInit
    /\ imageTasks = <<>>

-----------------------------------------------------------------------------
(* The shopping list on its own: the session starts from what the mount     *)
(* effect loads (favorites, a plan or none, the cache that holds them) and  *)
(* an empty list; the user then works the cards and the list.               *)

DefaultFilters == [mealType |-> "Dinner", protein |-> {"Any"}, maxTime |-> 30,
                   supermarket |-> "Any", difficulty |-> "Any"]

SavedFavorites == <<MkRecipe(DishPasta, 1, "Dinner"), MkRecipe(DishSalad, 2, "Lunch")>>

InitList ==
    /\ recipes = <<>>
    /\ favoriteRecipes = SavedFavorites
    /\ \/ /\ weeklyPlan = 0
          /\ planHeap = <<>>
          /\ nextId = 3
          /\ recipeCache = SavedFavorites
       \/ \E data \in PlanResponses :
             LET p == fetchWeeklyPlan(data, 3)
             IN  /\ weeklyPlan = 1
                 /\ planHeap = <<p.plan>>
                 /\ nextId = p.next
                 /\ recipeCache = addToCache(SavedFavorites, PlanRecipes(p.plan))
    /\ filters = DefaultFilters
    /\ isLoading = FALSE
    /\ isLoadingMore = FALSE
    /\ fetches = [search |-> 0, more |-> 0]
    /\ imageReqs = {}
    /\ shoppingList = <<>>
    /\ nextItemId = 1
    /\ lastOp = Op("init", <<>>, 0, "")
    /\ hist = <<>>
    /\ SideInit

NextList ==
    \/ ToggleShoppingList
    \/ AddAllToShoppingList
    \/ RemoveFromShoppingList
    \/ ToggleShoppingItem
    \/ ClearShoppingList

SpecList == InitList /\ [][NextList]_vars

-----------------------------------------------------------------------------
(* Search, load more, plan generation, favorites and image patches (App.tsx, *)
(* Planner.tsx, RecipeCard.tsx)                                              *)

\* A variant of the filter that reads Medium as "3 or harder".
CacheFilterMediumUp(r, currentFilters) ==
    IF r.mealType # currentFilters.mealType THEN FALSE
    ELSE IF ~("Any" \in currentFilters.protein \/ r.protein \in currentFilters.protein)
         THEN FALSE
    ELSE IF r.prepTimeMinutes > currentFilters.maxTime THEN FALSE
    ELSE IF currentFilters.difficulty = "Easy" /\ r.difficulty > 2 THEN FALSE
    ELSE IF currentFilters.difficulty = "Medium" /\ r.difficulty < 3 THEN FALSE
    ELSE IF currentFilters.difficulty = "Hard" /\ r.difficulty < 4 THEN FALSE
    ELSE TRUE

\* The filter of getCachedMatches, return by return.
CacheFilter(r, currentFilters) ==
    IF r.mealType # currentFilters.mealType THEN FALSE
    ELSE IF ~("Any" \in currentFilters.protein \/ r.protein \in currentFilters.protein)
         THEN FALSE
    ELSE IF r.prepTimeMinutes > currentFilters.maxTime THEN FALSE
    ELSE IF currentFilters.difficulty # "Any"
              /\ currentFilters.difficulty = "Easy" /\ r.difficulty > 2 THEN FALSE
    ELSE IF currentFilters.difficulty # "Any"
              /\ currentFilters.difficulty = "Medium"
              /\ (r.difficulty < 3 \/ r.difficulty > 3) THEN FALSE
    ELSE IF currentFilters.difficulty # "Any"
              /\ currentFilters.difficulty = "Hard" /\ r.difficulty < 4 THEN FALSE
    ELSE TRUE

getCachedMatches(cache, currentFilters) ==
    SelectSeq(cache, LAMBDA r : CacheFilter(r, currentFilters))

\* [...matches].sort(() => 0.5 - Math.random()): some permutation of the
\* matches.  The random source is an input of the model; it draws the list as
\* it is, rotated by one, or reversed.
Rotate(s, k) == [i \in 1..Len(s) |-> s[((i + k - 1) % Len(s)) + 1]]
Reverse(s) == [i \in 1..Len(s) |-> s[Len(s) + 1 - i]]
Shuffles(s) == IF s = <<>> THEN {<<>>} ELSE {s, Rotate(s, 1), Reverse(s)}

\* A variant of slice whose end index is inclusive.
SliceInclusive(s, n) == SubSeq(s, 1, IF Len(s) < n + 1 THEN Len(s) ELSE n + 1)

\* Array.prototype.slice(0, n)
Slice(s, n) == SubSeq(s, 1, IF Len(s) < n THEN Len(s) ELSE n)

\* What one fetchRecipes call can get back from the oracle, parsed: no items
\* (also the outcome of a failed call), or some items.
BatchResponses == {<<>>, <<DishPasta>>, <<DishSoup>>}

\* fetchRecipes: "Map to our internal type and add IDs".
fetchRecipes(data, firstId) ==
    [i \in 1..Len(data) |->
        MkRecipe(data[i], firstId + i - 1,
                 IF data[i].mealType = "Dinner" THEN "Dinner" ELSE "Lunch")]

\* The three parallel fetchRecipes calls of handleSearch / loadMore.
ThreeBatches(d1, d2, d3, firstId) ==
    fetchRecipes(d1, firstId) \o fetchRecipes(d2, firstId + Len(d1))
        \o fetchRecipes(d3, firstId + Len(d1) + Len(d2))

\* Array.from(new Map(combined.map(item => [item.title, item])).values()):
\* one entry per title, at the place of the title's first item, holding the
\* title's last item.
UniqueByTitle(combined) ==
    LET firsts == SelectSeq([i \in 1..Len(combined) |-> i],
                     LAMBDA i : \A j \in 1..(i - 1) : combined[j].title # combined[i].title)
    IN  [k \in 1..Len(firsts) |->
            combined[MaxOf({j \in 1..Len(combined) :
                              combined[j].title = combined[firsts[k]].title})]]

\* A variant of the updater that dedups the whole list through a Map, so a
\* fetched recipe takes the place of a shown one with its title.
AppendLastWins(prev, moreRecipes) == UniqueByTitle(prev \o moreRecipes)

\* The updater loadMore hands to setRecipes after its fetch.
AppendNewTitles(prev, moreRecipes) ==
    LET existingTitles == {prev[i].title : i \in 1..Len(prev)}
    IN  prev \o SelectSeq(moreRecipes, LAMBDA r : r.title \notin existingTitles)

InFlight == fetches.search + fetches.more

\* handleSearch up to its return or its await; the Find Recipes button is
\* disabled while isLoading.
HandleSearch ==
    LET matches == getCachedMatches(recipeCache, filters)
    IN  /\ ~isLoading
        /\ IF Len(matches) >= MatchThreshold
           THEN /\ \E shuffled \in Shuffles(matches) :
                       recipes' = Slice(shuffled, BatchShown)
                /\ isLoading' = FALSE
                /\ UNCHANGED fetches
           ELSE /\ InFlight < MaxFetches
                /\ recipes' = <<>>
                /\ isLoading' = TRUE
                /\ fetches' = [fetches EXCEPT !.search = @ + 1]
        /\ lastOp' = Op("search", <<>>, 0, "")
        /\ UNCHANGED <<recipeCache, filters, isLoadingMore, favoriteRecipes, weeklyPlan,
                       planHeap, imageReqs, nextId, listVars, sideVars>>

\* The rest of handleSearch, when the three fetches have settled.
SearchDone ==
    /\ fetches.search > 0
    /\ \E d1, d2, d3 \in BatchResponses :
          LET combined == ThreeBatches(d1, d2, d3, nextId)
              unique   == UniqueByTitle(combined)
          IN  /\ nextId + Len(combined) <= MaxRecipeId + 1
              /\ recipes' = unique
              /\ recipeCache' = addToCache(recipeCache, unique)
              /\ nextId' = nextId + Len(combined)
    /\ isLoading' = FALSE
    /\ fetches' = [fetches EXCEPT !.search = @ - 1]
    /\ lastOp' = Op("searchDone", <<>>, 0, "")
    /\ UNCHANGED <<filters, isLoadingMore, favoriteRecipes, weeklyPlan, planHeap,
                   imageReqs, listVars, sideVars>>

\* loadMore up to its return or its await; the button is drawn under the
\* results and disabled while isLoadingMore.
LoadMore ==
    /\ recipes # <<>>
    /\ ~isLoadingMore
    /\ LET matches == getCachedMatches(recipeCache, filters)
           currentTitles == {recipes[i].title : i \in 1..Len(recipes)}
           availableInCache == SelectSeq(matches, LAMBDA r : r.title \notin currentTitles)
       IN  IF Len(availableInCache) >= MatchThreshold
           THEN /\ \E shuffled \in Shuffles(availableInCache) :
                       recipes' = recipes \o Slice(shuffled, BatchShown)
                /\ UNCHANGED <<isLoadingMore, fetches>>
           ELSE /\ InFlight < MaxFetches
                /\ isLoadingMore' = TRUE
                /\ fetches' = [fetches EXCEPT !.more = @ + 1]
                /\ UNCHANGED recipes
    /\ lastOp' = Op("loadMore", <<>>, 0, "")
    /\ UNCHANGED <<recipeCache, filters, isLoading, favoriteRecipes, weeklyPlan,
                   planHeap, imageReqs, nextId, listVars, sideVars>>

\* The rest of loadMore, when the three fetches have settled.
LoadMoreDone ==
    /\ fetches.more > 0
    /\ \E d1, d2, d3 \in BatchResponses :
          LET moreRecipes == ThreeBatches(d1, d2, d3, nextId)
          IN  /\ nextId + Len(moreRecipes) <= MaxRecipeId + 1
              /\ recipes' = AppendNewTitles(recipes, moreRecipes)
              /\ recipeCache' = addToCache(recipeCache, moreRecipes)
              /\ nextId' = nextId + Len(moreRecipes)
    /\ isLoadingMore' = FALSE
    /\ fetches' = [fetches EXCEPT !.more = @ - 1]
    /\ lastOp' = Op("loadMoreDone", <<>>, 0, "")
    /\ UNCHANGED <<filters, isLoading, favoriteRecipes, weeklyPlan, planHeap,
                   imageReqs, listVars, sideVars>>

\* Planner.handleGenerate once fetchWeeklyPlan has answered with a plan: the
\* new plan object replaces the state and its recipes go to the cache.  (A
\* failed call answers null and changes nothing.)
HandleGenerate ==
    /\ Len(planHeap) < MaxPlans
    /\ \E data \in PlanResponses :
          LET p == fetchWeeklyPlan(data, nextId)
              allRecipes == PlanRecipes(p.plan)
          IN  /\ p.next <= MaxRecipeId + 1
              /\ planHeap' = Append(planHeap, p.plan)
              /\ weeklyPlan' = Len(planHeap) + 1
              /\ recipeCache' = IF Len(allRecipes) > 0
                                THEN addToCache(recipeCache, allRecipes)
                                ELSE recipeCache
              /\ nextId' = p.next
    /\ lastOp' = Op("generate", <<>>, 0, "")
    /\ UNCHANGED <<recipes, filters, isLoading, isLoadingMore, favoriteRecipes,
                   fetches, imageReqs, listVars, sideVars>>

\* A variant that looks the favorite up by id.
handleToggleFavoriteById(prev, recipe) ==
    IF \E i \in 1..Len(prev) : prev[i].id = recipe.id
    THEN SelectSeq(prev, LAMBDA r : r.id # recipe.id)
    ELSE Append(prev, recipe)

\* handleToggleFavorite: exists is found by title, and so is what is filtered.
handleToggleFavorite(prev, recipe) ==
    IF \E i \in 1..Len(prev) : prev[i].title = recipe.title
    THEN SelectSeq(prev, LAMBDA r : r.title # recipe.title)
    ELSE Append(prev, recipe)

HandleToggleFavorite ==
    \E recipe \in Displayed :
        /\ favoriteRecipes' = handleToggleFavorite(favoriteRecipes, recipe)
        /\ lastOp' = Op("favorite", <<recipe>>, recipe.id, "")
        /\ UNCHANGED <<recipes, recipeCache, filters, isLoading, isLoadingMore,
                       weeklyPlan, planHeap, fetches, imageReqs, nextId, listVars, sideVars>>

\* The effect of a RecipeCard drawn for a recipe without image: it asks for a
\* picture and keeps the onImageGenerated of the render it ran in, that is the
\* handleUpdateRecipeImage whose weeklyPlan is the plan of that render.
StartImage ==
    /\ Cardinality(imageReqs) < MaxImageReqs
    /\ \E recipe \in Displayed :
          /\ recipe.image = NoImage
          /\ imageReqs' = imageReqs \cup {[id |-> recipe.id, plan |-> weeklyPlan]}
          /\ lastOp' = Op("imageStart", <<recipe>>, recipe.id, "")
    /\ UNCHANGED <<recipes, recipeCache, filters, isLoading, isLoadingMore,
                   favoriteRecipes, weeklyPlan, planHeap, fetches, nextId, listVars, sideVars>>

\* What generateRecipeImage resolves to: a picture, or null (NoImage).
Images == {"imgA"}

\* prev.map(r => r.id === id ? { ...r, image: img } : r)
PatchList(prev, id, img) ==
    [i \in 1..Len(prev) |->
        IF prev[i].id = id THEN [prev[i] EXCEPT !.image = img] ELSE prev[i]]

\* One slot of the plan walk of handleUpdateRecipeImage: the recipe object in
\* the slot is written in place.
PatchSlot(slot, id, img) ==
    IF slot # <<>> /\ slot[1].id = id THEN <<[slot[1] EXCEPT !.image = img]>> ELSE slot

PatchPlan(plan, id, img) ==
    [d \in DOMAIN plan |-> [lunch  |-> PatchSlot(plan[d].lunch, id, img),
                            dinner |-> PatchSlot(plan[d].dinner, id, img)]]

PlanHolds(plan, id) ==
    \E d \in DOMAIN plan :
        \/ (plan[d].lunch # <<>> /\ plan[d].lunch[1].id = id)
        \/ (plan[d].dinner # <<>> /\ plan[d].dinner[1].id = id)

\* A picture request settles.  With a picture, the card calls the
\* handleUpdateRecipeImage it kept: the three lists are mapped through their
\* updaters; the plan walked is the weeklyPlan of the handler's render
\* (req.plan), its recipe objects are written in place, and when one matched a
\* copy of that plan object becomes the state.  Without a picture nothing is
\* called.
ImageDone ==
    \E req \in imageReqs, img \in Images \cup {NoImage} :
        /\ imageReqs' = imageReqs \ {req}
        /\ IF img = NoImage
           THEN /\ UNCHANGED <<recipes, favoriteRecipes, recipeCache, weeklyPlan, planHeap>>
                /\ lastOp' = Op("noImage", <<>>, req.id, "")
           ELSE /\ recipes' = PatchList(recipes, req.id, img)
                /\ favoriteRecipes' = PatchList(favoriteRecipes, req.id, img)
                /\ recipeCache' = PatchList(recipeCache, req.id, img)
                /\ IF req.plan # 0 /\ PlanHolds(planHeap[req.plan], req.id)
                   THEN /\ planHeap' = [planHeap EXCEPT ![req.plan] = PatchPlan(@, req.id, img)]
                        /\ weeklyPlan' = req.plan
                   ELSE UNCHANGED <<weeklyPlan, planHeap>>
                /\ lastOp' = Op("patch", <<>>, req.id, img)
        /\ UNCHANGED <<filters, isLoading, isLoadingMore, fetches, nextId, listVars, sideVars>>

Init ==
    /\ recipes = <<>>
    /\ shoppingList = <<>>
    /\ recipeCache = <<>>
    /\ filters = DefaultFilters
    /\ isLoading = FALSE
    /\ isLoadingMore = FALSE
    /\ favoriteRecipes = <<>>
    /\ weeklyPlan = 0
    /\ planHeap = <<>>
    /\ fetches = [search |-> 0, more |-> 0]
    /\ imageReqs = {}
    /\ nextId = 1
    /\ nextItemId = 1
    /\ lastOp = Op("init", <<>>, 0, "")
    /\ hist = <<>>
    /\ SideInit

\* The recipe cache and what feeds it: search, load more, plan generation.
Next ==
    \/ HandleSearch
    \/ SearchDone
    \/ LoadMore
    \/ LoadMoreDone
    \/ HandleGenerate

Spec == Init /\ [][Next]_vars

\* Pictures: cards are drawn for search results, favorites and plan slots, and
\* their picture requests settle while the user goes on searching, generating
\* plans and marking favorites.
NextImage ==
    \/ HandleSearch
    \/ SearchDone
    \/ HandleGenerate
    \/ HandleToggleFavorite
    \/ StartImage
    \/ ImageDone

SpecImage == Init /\ [][NextImage]_vars

\* Everything that writes the recipe cache: the three feeders and the image
\* patches of the cards drawn for results and plan slots.
NextCache ==
    \/ HandleSearch
    \/ SearchDone
    \/ LoadMore
    \/ LoadMoreDone
    \/ HandleGenerate
    \/ StartImage
    \/ ImageDone

SpecCache == Init /\ [][NextCache]_vars

\* The cache a previous session saved and the mount effect loads
\* (localStorage 'recipe_cache'): twelve recipes with ids of their own.
SavedTitles == <<"Dish1", "Dish2", "Dish3", "Dish4", "Dish5", "Dish6",
                 "Dish7", "Dish8", "Dish9", "Dish10", "Dish11", "Dish12">>
SavedRecipe(i) ==
    [id |-> 100 + i, title |-> SavedTitles[i],
     mealType |-> IF i = 12 THEN "Lunch" ELSE "Dinner",
     protein |-> IF i \in {5, 11} THEN "Fish"
                 ELSE IF i % 2 = 1 THEN "Chicken" ELSE "Beef",
     prepTimeMinutes |-> IF i <= 8 THEN 15 ELSE IF i = 9 THEN 30
                         ELSE IF i = 10 THEN 45 ELSE IF i = 11 THEN 60 ELSE 10,
     difficulty |-> IF i <= 9 THEN ((i - 1) % 2) + 1 ELSE i - 7,
     ingredients |-> << [item |-> TxtOil, store |-> "Any", price |-> "$4"] >>,
     image |-> "imgSaved"]
SavedCache == [i \in 1..12 |-> SavedRecipe(i)]

\* Filters.toggleProtein: the protein list after the button of p is pressed.
toggleProtein(protein, p) ==
    IF p = "Any" THEN {"Any"}
    ELSE IF p \in protein \ {"Any"}
         THEN (IF protein \ {"Any", p} = {} THEN {"Any"} ELSE protein \ {"Any", p})
         ELSE (IF "Any" \in protein THEN {p} ELSE protein \cup {p})

\* The controls of the Filters panel that are worked here, each with the
\* value it sets (for a protein button, the protein it toggles).
FilterChoices ==
    ({"mealType"} \X {"Lunch", "Dinner"})
        \cup ({"protein"} \X {"Any", "Chicken", "Beef"})
        \cup ({"maxTime"} \X {15, 45})
        \cup ({"difficulty"} \X {"Any", "Easy"})

\* Filters.handleChange: one field of the filter state is replaced.
SetFilters ==
    /\ \E c \in FilterChoices :
          filters' = [filters EXCEPT ![c[1]] =
                        IF c[1] = "protein" THEN toggleProtein(filters.protein, c[2])
                        ELSE c[2]]
    /\ lastOp' = Op("setFilters", <<>>, 0, "")
    /\ UNCHANGED <<recipes, recipeCache, isLoading, isLoadingMore, favoriteRecipes,
                   weeklyPlan, planHeap, fetches, imageReqs, nextId, listVars, sideVars>>

InitSearch ==
    /\ recipes = <<>>
    /\ shoppingList = <<>>
    /\ recipeCache = SavedCache
    /\ filters = DefaultFilters
    /\ isLoading = FALSE
    /\ isLoadingMore = FALSE
    /\ favoriteRecipes = <<>>
    /\ weeklyPlan = 0
    /\ planHeap = <<>>
    /\ fetches = [search |-> 0, more |-> 0]
    /\ imageReqs = {}
    /\ nextId = 1
    /\ nextItemId = 1
    /\ lastOp = Op("init", <<>>, 0, "")
    /\ hist = <<>>
    /\ SideInit

NextSearch ==
    \/ SetFilters
    \/ HandleSearch
    \/ SearchDone

SpecSearch == InitSearch /\ [][NextSearch]_vars

-----------------------------------------------------------------------------
(* The price shown for a shopping-list item (ShoppingList component) *)

\* The characters of the price strings the oracle items carry.
PriceChars(p) ==
    CASE p = "$3.50" -> <<"$","3",".","5","0">>
      [] p = "$1.25" -> <<"$","1",".","2","5">>
      [] p = "$2"    -> <<"$","2">>
      [] p = "$1"    -> <<"$","1">>
      [] p = "$4"    -> <<"$","4">>
      [] OTHER       -> <<>>

DigitSeq == <<"0","1","2","3","4","5","6","7","8","9">>
DigitVal(c) == (CHOOSE d \in 1..10 : DigitSeq[d] = c) - 1

RECURSIVE NatOf(_)
NatOf(ds) == IF ds = <<>> THEN 0
             ELSE NatOf(SubSeq(ds, 1, Len(ds) - 1)) * 10 + DigitVal(ds[Len(ds)])

RECURSIVE NatChars(_)
NatChars(n) == IF n < 10 THEN <<DigitSeq[n + 1]>>
               ELSE Append(NatChars(n \div 10), DigitSeq[(n % 10) + 1])

\* p.match(/(\d+(\.\d+)?)/): the first numeral of p as [int, frac] in a
\* one-element sequence, or <<>> when p holds no digit.
NumeralAt(p, a, n) ==
    IF a + n + 1 <= Len(p) /\ p[a + n] = "." /\ p[a + n + 1] \in Digits
    THEN [int |-> SubSeq(p, a, a + n - 1),
          frac |-> SubSeq(p, a + n + 1, a + n + RunFrom(p, a + n + 1, Digits))]
    ELSE [int |-> SubSeq(p, a, a + n - 1), frac |-> <<>>]
PriceMatch(p) ==
    IF \A i \in 1..Len(p) : p[i] \notin Digits THEN <<>>
    ELSE <<NumeralAt(p, MinOf({i \in 1..Len(p) : p[i] \in Digits}),
                     RunFrom(p, MinOf({i \in 1..Len(p) : p[i] \in Digits}), Digits))>>

\* parseFloat of a numeral with at most two decimals, in cents.
parseFloat(m) ==
    NatOf(m.int) * 100
        + (IF Len(m.frac) = 0 THEN 0
           ELSE IF Len(m.frac) = 1 THEN DigitVal(m.frac[1]) * 10
           ELSE NatOf(SubSeq(m.frac, 1, 2)))

\* sum.toFixed(2) for a sum in cents.
toFixed2(cents) ==
    NatChars(cents \div 100)
        \o <<".", DigitSeq[((cents % 100) \div 10) + 1], DigitSeq[(cents % 10) + 1]>>

RECURSIVE JoinPlus(_)
JoinPlus(ps) ==
    IF Len(ps) = 1 THEN ps[1] ELSE ps[1] \o <<" ", "+", " ">> \o JoinPlus(Tail(ps))

RECURSIVE SumCents(_)
SumCents(ps) ==
    IF ps = <<>> THEN 0
    ELSE (IF PriceMatch(ps[1]) = <<>> THEN 0 ELSE parseFloat(PriceMatch(ps[1])[1]))
            + SumCents(Tail(ps))

\* The price strings of the contributions that have one.
PricesOf(item) ==
    LET priced == SelectSeq(item.contributions, LAMBDA c : c.price # "")
    IN  [k \in 1..Len(priced) |-> PriceChars(priced[k].price)]

\* getItemPriceDisplay(item): <<>> for null, else the text in a one-element
\* sequence; prices are the price strings of PricesOf(item).
PriceDisplayOf(prices) ==
    IF Len(prices) = 0 THEN <<>>
    ELSE IF Len(prices) = 1 THEN <<prices[1]>>
    ELSE IF (\A k \in 1..Len(prices) : PriceMatch(prices[k]) # <<>>)
              /\ SumCents(prices) > 0
         THEN <<<<"$">> \o toFixed2(SumCents(prices))>>
         ELSE <<JoinPlus(prices)>>
getItemPriceDisplay(item) == PriceDisplayOf(PricesOf(item))

-----------------------------------------------------------------------------
(* Persistence (App.tsx): saveWithQuotaCheck and the effects that call it *)

\* What localStorage.setItem can do: return (NoError) or throw an error with a
\* name and a code.
NoError == [name |-> "", code |-> 0]
StorageErrors ==
    {[name |-> "QuotaExceededError", code |-> 22],
     [name |-> "NS_ERROR_DOM_QUOTA_REACHED", code |-> 1014],
     [name |-> "Error", code |-> 22],
     [name |-> "SecurityError", code |-> 18]}

IsQuota(err) ==
    err.name = "QuotaExceededError" \/ err.name = "NS_ERROR_DOM_QUOTA_REACHED"
        \/ err.code = 22

\* JSON.stringify(data, (k, v) => k === 'image' ? undefined : v) for a list of
\* recipes: every recipe without its image key.
WithoutImages(data) ==
    [i \in 1..Len(data) |-> [f \in (DOMAIN data[i]) \ {"image"} |-> data[i][f]]]

\* A variant that writes again after any failure of the first write.
saveRetryAlways(key, data, e1, e2) ==
    IF e1 = NoError
    THEN <<[key |-> key, value |-> <<data>>, error |-> e1]>>
    ELSE <<[key |-> key, value |-> <<data>>, error |-> e1],
           [key |-> key, value |-> <<WithoutImages(data)>>, error |-> e2]>>

\* saveWithQuotaCheck(key, data): the setItem calls it makes, in order, when
\* the first call ends with e1 and a second one, if made, with e2.
saveWithQuotaCheck(key, data, e1, e2) ==
    IF e1 = NoError
    THEN <<[key |-> key, value |-> <<data>>, error |-> e1]>>
    ELSE IF IsQuota(e1)
         THEN <<[key |-> key, value |-> <<data>>, error |-> e1],
                [key |-> key, value |-> <<WithoutImages(data)>>, error |-> e2]>>
         ELSE <<[key |-> key, value |-> <<data>>, error |-> e1]>>

\* What the key holds after the calls: the value of the last call that
\* returned, or what it held.
Stored(old, calls) ==
    IF calls[Len(calls)].error = NoError THEN calls[Len(calls)].value
    ELSE IF calls[1].error = NoError THEN calls[1].value
    ELSE old

\* The persist effects of the favorites and of the cache.
SaveWithQuotaCheck ==
    /\ UNCHANGED <<normVars, queueVars, taskVars>>
    /\ \E key \in {"FAV", "CACHE"}, e1, e2 \in StorageErrors \cup {NoError} :
          LET data  == IF key = "FAV" THEN favoriteRecipes ELSE recipeCache
              calls == saveWithQuotaCheck(key, data, e1, e2)
          IN  /\ writes' = calls
              /\ storage' = [storage EXCEPT ![key] = Stored(@, calls)]
    /\ lastOp' = Op("save", <<>>, 0, "")
    /\ UNCHANGED <<appVars, listVars>>

\* A session with two cached recipes on screen, one with a picture.
InitSave ==
    /\ recipes = <<SavedRecipe(1), MkRecipe(DishSalad, 1, "Lunch")>>
    /\ recipeCache = <<SavedRecipe(1), MkRecipe(DishSalad, 1, "Lunch")>>
    /\ shoppingList = <<>>
    /\ filters = DefaultFilters
    /\ isLoading = FALSE
    /\ isLoadingMore = FALSE
    /\ favoriteRecipes = <<>>
    /\ weeklyPlan = 0
    /\ planHeap = <<>>
    /\ fetches = [search |-> 0, more |-> 0]
    /\ imageReqs = {}
    /\ nextId = 2
    /\ nextItemId = 1
    /\ lastOp = Op("init", <<>>, 0, "")
    /\ hist = <<>>
    /\ SideInit

NextSave ==
    \/ HandleToggleFavorite
    \/ SaveWithQuotaCheck

SpecSave == InitSave /\ [][NextSave]_vars

-----------------------------------------------------------------------------
(* The normalizer on its own: ingredient texts put together from a few      *)
(* tokens (a digit, a space, unit words, "of", letters), and the two texts  *)
(* of the documentation, are cleaned, and the result is cleaned again.      *)

TxtTomatoes == <<"2"," ","c","u","p","s"," ","(","d","i","c","e","d",")"," ",
                 "T","o","m","a","t","o","e","s">>
TxtChickenBreasts == <<"5","0","0","g"," ","C","h","i","c","k","e","n"," ",
                       "B","r","e","a","s","t","s">>

NormTokens == {<<"2">>, <<" ">>, <<"c","u","p">>, <<"o","f">>, <<"a","b">>, <<"s">>}

RECURSIVE TokenStrings(_)
TokenStrings(n) ==
    IF n = 0 THEN {<<>>}
    ELSE TokenStrings(n - 1) \cup {s \o t : s \in TokenStrings(n - 1), t \in NormTokens}

NormInputs == TokenStrings(MaxTokens) \cup {TxtTomatoes, TxtChickenBreasts}

InitNormalize ==
    /\ recipes = <<>>
    /\ shoppingList = <<>>
    /\ recipeCache = <<>>
    /\ filters = DefaultFilters
    /\ isLoading = FALSE
    /\ isLoadingMore = FALSE
    /\ favoriteRecipes = <<>>
    /\ weeklyPlan = 0
    /\ planHeap = <<>>
    /\ fetches = [search |-> 0, more |-> 0]
    /\ imageReqs = {}
    /\ nextId = 1
    /\ nextItemId = 1
    /\ lastOp = Op("init", <<>>, 0, "")
    /\ hist = <<>>
    /\ storage = [k \in STORAGE_KEYS |-> <<>>]
    /\ writes = <<>>
    /\ rawText \in NormInputs
    /\ cleaned = <<>>
    /\ QueueInit
    /\ imageTasks = <<>>

\* cleanIngredientText(rawText)
Clean ==
    /\ cleaned = <<>>
    /\ cleaned' = <<cleanIngredientText(rawText)>>
    /\ lastOp' = Op("clean", <<>>, 0, "")
    /\ UNCHANGED <<appVars, listVars, saveVars, queueVars, taskVars, rawText>>

\* cleanIngredientText(cleanIngredientText(rawText))
CleanAgain ==
    /\ Len(cleaned) = 1
    /\ cleaned' = Append(cleaned, cleanIngredientText(cleaned[1]))
    /\ lastOp' = Op("cleanAgain", <<>>, 0, "")
    /\ UNCHANGED <<appVars, listVars, saveVars, queueVars, taskVars, rawText>>

NextNormalize ==
    \/ Clean
    \/ CleanAgain

SpecNormalize == InitNormalize /\ [][NextNormalize]_vars

-----------------------------------------------------------------------------
(* The image request queue (geminiService RequestQueue) on its own: tasks   *)
(* are added at any time while the clock ticks.                              *)

\* A variant that stores the time sampled at the top of the loop.
lastRequestTimeSampled(now, dateNow) == now

\* this.lastRequestTime = Date.now(), in an iteration that sampled now.
lastRequestTimeAfter(now, dateNow) == dateNow

\* The while loop of process() from the top of an iteration at time now, up
\* to its next await or its end: q, last and st are the queue, the
\* lastRequestTime and the initiations so far.
RECURSIVE ProcessLoop(_, _, _, _)
ProcessLoop(q, last, st, now) ==
    IF Len(q) = 0
    THEN [queue |-> q, lastRequestTime |-> last, started |-> st,
          timer |-> <<>>, processing |-> FALSE]
    ELSE IF now - last < MinDelay
         THEN [queue |-> q, lastRequestTime |-> last, started |-> st,
               timer |-> <<[now |-> now, due |-> now + (MinDelay - (now - last))]>>,
               processing |-> TRUE]
         ELSE ProcessLoop(Tail(q), lastRequestTimeAfter(now, now),
                          Append(st, [task |-> Head(q).task, added |-> Head(q).added,
                                      at |-> now]),
                          now)

\* A variant that clears processing whenever process() gives up control.
QueueStepClearsProcessing(r) ==
    /\ queue' = r.queue
    /\ lastRequestTime' = r.lastRequestTime
    /\ started' = r.started
    /\ timer' = r.timer
    /\ processing' = FALSE

\* A variant that never clears processing when the loop ends.
QueueStepKeepsProcessing(r) ==
    /\ queue' = r.queue
    /\ lastRequestTime' = r.lastRequestTime
    /\ started' = r.started
    /\ timer' = r.timer
    /\ processing' = TRUE

\* process() up to its next await or its end, as the fields it leaves.
QueueStep(r) ==
    /\ queue' = r.queue
    /\ lastRequestTime' = r.lastRequestTime
    /\ started' = r.started
    /\ timer' = r.timer
    /\ processing' = r.processing

\* add(task): push, then process(), which returns at once while processing.
Add ==
    /\ Len(queue) + Len(started) < MaxTasks
    /\ LET task == [task |-> Len(queue) + Len(started) + 1, added |-> clock]
       IN  IF processing
           THEN /\ queue' = Append(queue, task)
                /\ UNCHANGED <<lastRequestTime, started, timer, processing>>
           ELSE QueueStep(ProcessLoop(Append(queue, task), lastRequestTime, started, clock))
    /\ lastOp' = Op("enqueue", <<>>, 0, "")
    /\ UNCHANGED <<appVars, listVars, saveVars, normVars, taskVars, clock>>

\* The awaited timeout fires, at its due time or later; the iteration goes
\* on: shift, start the task, store the time, loop.
TimerFires ==
    /\ timer # <<>>
    /\ clock >= timer[1].due
    /\ QueueStep(ProcessLoop(Tail(queue),
                             lastRequestTimeAfter(timer[1].now, clock),
                             Append(started, [task |-> Head(queue).task,
                                              added |-> Head(queue).added,
                                              at |-> clock]),
                             clock))
    /\ lastOp' = Op("timer", <<>>, 0, "")
    /\ UNCHANGED <<appVars, listVars, saveVars, normVars, taskVars, clock>>

\* Time passes: up to MaxClock, and beyond it for as long as a timeout is
\* still to come due.
Tick ==
    /\ clock < MaxClock \/ (timer # <<>> /\ clock < timer[1].due)
    /\ clock' = clock + 1
    /\ lastOp' = Op("tick", <<>>, 0, "")
    /\ UNCHANGED <<appVars, listVars, saveVars, normVars, taskVars, queue, processing,
                   lastRequestTime, timer, started>>

NextQueue ==
    \/ Add
    \/ TimerFires
    \/ Tick

SpecQueue == Init /\ [][NextQueue]_vars

-----------------------------------------------------------------------------
(* generateRecipeImage (geminiService): the task a caller hands to the      *)
(* queue, from the moment the queue starts it.                               *)

\* What resolve() is called with.
Undefined == "undefined"
DataUrl(data) == <<"data:image/png;base64,", data>>

\* The parts of a response: inlineData is "" on a part that has none.
TextPart == [inlineData |-> ""]
ImagePart(data) == [inlineData |-> data]

\* What generateContent gives: it throws, or a response with its parts.
OracleResponses ==
    {[throws |-> TRUE, parts |-> <<>>]} \cup
    {[throws |-> FALSE, parts |-> p] :
        p \in {<<>>, <<TextPart>>, <<TextPart, ImagePart("imgA")>>,
               <<ImagePart("imgA"), ImagePart("imgB")>>}}

\* A variant of the loop without its break.
RECURSIVE ExtractEveryImage(_, _)
ExtractEveryImage(parts, found) ==
    IF parts = <<>> THEN (IF found THEN <<>> ELSE <<Undefined>>)
    ELSE IF Head(parts).inlineData # ""
         THEN <<DataUrl(Head(parts).inlineData)>> \o ExtractEveryImage(Tail(parts), TRUE)
         ELSE ExtractEveryImage(Tail(parts), found)

\* "Extract image": the resolve calls of the loop over the parts and of the
\* if (!found) after it.
RECURSIVE ExtractImage(_, _)
ExtractImage(parts, found) ==
    IF parts = <<>> THEN (IF found THEN <<>> ELSE <<Undefined>>)
    ELSE IF Head(parts).inlineData # ""
         THEN <<DataUrl(Head(parts).inlineData)>>
         ELSE ExtractImage(Tail(parts), found)

\* The queue starts the task: getAI(), then either resolve(undefined) and
\* return, or the request to the oracle and its await.
TaskStarts ==
    /\ Len(imageTasks) < MaxTasks
    /\ \E apiKey \in BOOLEAN :
          imageTasks' = Append(imageTasks,
              IF apiKey
              THEN [credential |-> TRUE, requests |-> 1, awaiting |-> TRUE,
                    answer |-> <<>>, resolved |-> <<>>]
              ELSE [credential |-> FALSE, requests |-> 0, awaiting |-> FALSE,
                    answer |-> <<>>, resolved |-> <<Undefined>>])
    /\ lastOp' = Op("taskStarts", <<>>, 0, "")
    /\ UNCHANGED <<appVars, listVars, saveVars, normVars, queueVars>>

\* The awaited generateContent settles: the catch block, or the extraction.
OracleAnswers ==
    /\ \E k \in 1..Len(imageTasks), r \in OracleResponses :
          /\ imageTasks[k].awaiting
          /\ imageTasks' = [imageTasks EXCEPT ![k] =
                 [@ EXCEPT !.awaiting = FALSE,
                           !.answer = <<r>>,
                           !.resolved = @ \o (IF r.throws THEN <<Undefined>>
                                              ELSE ExtractImage(r.parts, FALSE))]]
    /\ lastOp' = Op("oracleAnswers", <<>>, 0, "")
    /\ UNCHANGED <<appVars, listVars, saveVars, normVars, queueVars>>

NextTask ==
    \/ TaskStarts
    \/ OracleAnswers

SpecTask == Init /\ [][NextTask]_vars

-----------------------------------------------------------------------------
(* The queue together with the tasks it starts.  process() calls task()     *)
(* inside its loop, so the body of a started task runs up to its await       *)
(* before anything else happens; the oracle answers a request at any later  *)
(* time, or never.  Timers fire and time passes (weak fairness); nothing is *)
(* assumed of the oracle.                                                    *)

\* Every task process() has called has run up to its await.
Synced == Len(imageTasks) = Len(started)

QueueAdd == Synced /\ Add
QueueTimer == Synced /\ TimerFires
QueueTick == Synced /\ Tick
QueueTask == Len(imageTasks) < Len(started) /\ TaskStarts

NextLive ==
    \/ QueueAdd
    \/ QueueTimer
    \/ QueueTick
    \/ QueueTask
    \/ OracleAnswers

SpecLive ==
    /\ Init
    /\ [][NextLive]_vars
    /\ WF_vars(QueueTimer)
    /\ WF_vars(QueueTick)
    /\ WF_vars(QueueTask)

-----------------------------------------------------------------------------
(* Properties of the shopping list, checked under SpecList *)

ItemIds(list) == {list[i].id : i \in 1..Len(list)}
ItemById(list, id) == list[CHOOSE i \in 1..Len(list) : list[i].id = id]
StoreOf(ing) == IF ing.store = "" THEN "Any" ELSE ing.store
\* The ingredients of recipe r that fall under the merge key (store, name).
IngredientsFor(r, store, name) ==
    {k \in 1..Len(r.ingredients) :
        /\ StoreOf(r.ingredients[k]) = store
        /\ cleanIngredientText(r.ingredients[k].item) = name}
ItemsFor(list, store, name) ==
    {i \in 1..Len(list) : list[i].store = store /\ list[i].name = name}
Stores == {"Any", "Aldi"}
Names  == {cleanIngredientText(TxtOnion), cleanIngredientText(TxtOil)}
TitlesIn(item) == {item.contributions[j].recipeTitle : j \in 1..Len(item.contributions)}

\* C2: at most one shopping-list item exists for each (store, name) pair, in
\* every state reached by recipe add/remove, toggleItem, removeItem and clear.
C2_OneItemPerStoreAndName ==
    \A i, j \in 1..Len(shoppingList) :
        (shoppingList[i].store = shoppingList[j].store
            /\ shoppingList[i].name = shoppingList[j].name) => i = j

\* C2 witness: a recipe with two ingredients under one key was just added and
\* both contributions sit in one item.
C2_Witness ==
    /\ lastOp.op = "add"
    /\ \E store \in Stores, name \in Names :
          /\ Cardinality(IngredientsFor(lastOp.recipe[1], store, name)) >= 2
          /\ \E i \in ItemsFor(shoppingList, store, name) :
                Cardinality({j \in 1..Len(shoppingList[i].contributions) :
                    shoppingList[i].contributions[j].recipeId = lastOp.id}) >= 2

\* C3: every shopping-list item has at least one contribution.
C3_NoEmptyItem ==
    \A i \in 1..Len(shoppingList) : Len(shoppingList[i].contributions) >= 1

\* C3 witness: a recipe was just removed, an item lost a contribution and stays
\* with what other recipes gave it, and an earlier item is gone.
C3_Witness ==
    /\ lastOp.op = "remove"
    /\ shoppingList # <<>>
    /\ Len(shoppingList) < nextItemId - 1

\* C4: a recipe removal with title T leaves no contribution titled T, drops the
\* items that held only such contributions, and keeps every other item with
\* its other contributions in their order.
C4_RemovalStep ==
    LET T == lastOp'.recipe[1].title
        Kept(item) == SelectSeq(item.contributions, LAMBDA c : c.recipeTitle # T)
        Survivors == SelectSeq(shoppingList, LAMBDA item : TitlesIn(item) # {T})
    IN  /\ \A i \in 1..Len(shoppingList') : T \notin TitlesIn(shoppingList'[i])
        /\ \A i \in 1..Len(shoppingList) :
              TitlesIn(shoppingList[i]) = {T} =>
                  shoppingList[i].id \notin ItemIds(shoppingList')
        /\ Len(shoppingList') = Len(Survivors)
        /\ \A k \in 1..Len(Survivors) :
              /\ shoppingList'[k].id = Survivors[k].id
              /\ shoppingList'[k].contributions = Kept(Survivors[k])
C4_RemoveRetractsTitle == [][lastOp'.op = "remove" => C4_RemovalStep]_vars

\* C4 witness: two recipes were added to the empty list and the first was
\* removed again; an item the second contributed to remains and an item that
\* only the first had is gone.
C4_Witness ==
    /\ Len(hist) = 3
    /\ hist[1].op = "add" /\ hist[2].op = "add" /\ hist[3].op = "remove"
    /\ hist[3].recipe[1].title = hist[1].recipe[1].title
    /\ shoppingList # <<>>
    /\ Len(shoppingList) < nextItemId - 1

\* The case of C5: exactly two adds since the list was empty, of recipes with
\* different titles that each have exactly one ingredient under (store, name).
C5_Case(store, name) ==
    /\ Len(hist) = 2
    /\ hist[1].op = "add" /\ hist[2].op = "add"
    /\ hist[1].recipe[1].title # hist[2].recipe[1].title
    /\ Cardinality(IngredientsFor(hist[1].recipe[1], store, name)) = 1
    /\ Cardinality(IngredientsFor(hist[2].recipe[1], store, name)) = 1

C5_Merged(store, name) ==
    /\ Cardinality(ItemsFor(shoppingList, store, name)) = 1
    /\ LET item == shoppingList[CHOOSE i \in ItemsFor(shoppingList, store, name) : TRUE]
           r1 == hist[1].recipe[1]
           r2 == hist[2].recipe[1]
           k1 == CHOOSE k \in IngredientsFor(r1, store, name) : TRUE
           k2 == CHOOSE k \in IngredientsFor(r2, store, name) : TRUE
       IN  item.contributions =
             << [recipeId |-> r1.id, recipeTitle |-> r1.title,
                 text |-> r1.ingredients[k1].item, price |-> r1.ingredients[k1].price],
                [recipeId |-> r2.id, recipeTitle |-> r2.title,
                 text |-> r2.ingredients[k2].item, price |-> r2.ingredients[k2].price] >>

\* C5: two recipes with different titles, each with one ingredient of the same
\* normalized name and store, added to an empty list give exactly one item for
\* that key holding the two contributions, the first recipe's first.
C5_TwoRecipesOneItem ==
    \A store \in Stores, name \in Names : C5_Case(store, name) => C5_Merged(store, name)

\* C5 witness: the case has happened and the merged item is there.
C5_Witness ==
    \E store \in Stores, name \in Names : C5_Case(store, name) /\ C5_Merged(store, name)

\* C6: an add unchecks every item it appends a contribution to and creates
\* items unchecked; an item becomes checked only in a toggleItem step.
C6_Step ==
    /\ lastOp'.op \in {"add", "addAll"} =>
          \A j \in 1..Len(shoppingList') :
              LET it == shoppingList'[j]
              IN  (\/ it.id \notin ItemIds(shoppingList)
                   \/ Len(it.contributions) >
                        Len(ItemById(shoppingList, it.id).contributions))
                  => ~it.checked
    /\ \A j \in 1..Len(shoppingList') :
          LET it == shoppingList'[j]
          IN  (/\ it.checked
               /\ (it.id \in ItemIds(shoppingList) => ~ItemById(shoppingList, it.id).checked))
              => lastOp'.op = "toggleItem"
C6_AddUnchecks == [][C6_Step]_vars

\* C6 witness: an item was created by one recipe, checked, and then merged
\* into by another recipe; it is unchecked.
C6_Witness ==
    /\ Len(hist) = 3
    /\ hist[1].op = "add" /\ hist[2].op = "toggleItem" /\ hist[3].op = "add"
    /\ \E i \in 1..Len(shoppingList) :
          /\ shoppingList[i].id = hist[2].id
          /\ Len(shoppingList[i].contributions) >= 2
          /\ shoppingList[i].contributions[Len(shoppingList[i].contributions)].recipeId
                = hist[3].id
          /\ ~shoppingList[i].checked

ContributionsOf(list, title) ==
    LET RECURSIVE Count(_)
        Count(i) == IF i > Len(list) THEN 0
                    ELSE Len(SelectSeq(list[i].contributions,
                                       LAMBDA c : c.recipeTitle = title)) + Count(i + 1)
    IN  Count(1)

\* C7: add-week adds the plan recipes whose title is not in the list and no
\* recipe whose title is in the list: afterwards a title that was in the list
\* has what it had, and any other title of the plan has contributed each of
\* its ingredients exactly once, also when it fills more than one slot.
C7_Step ==
    \A k \in 1..Len(CurrentPlanRecipes) :
        LET r == CurrentPlanRecipes[k]
            first == CHOOSE m \in 1..Len(CurrentPlanRecipes) :
                        /\ CurrentPlanRecipes[m].title = r.title
                        /\ \A n \in 1..(m - 1) : CurrentPlanRecipes[n].title # r.title
        IN  ContributionsOf(shoppingList', r.title) =
                IF isRecipeInList(shoppingList, r.title)
                THEN ContributionsOf(shoppingList, r.title)
                ELSE Len(CurrentPlanRecipes[first].ingredients)
C7_AddWeekAddsEachTitleOnce == [][lastOp'.op = "addAll" => C7_Step]_vars

-----------------------------------------------------------------------------
(* Properties of the recipe cache, checked under Spec *)

\* C1: no two entries of the recipe cache have the same title, whatever
\* batches search, load more and plan generation hand to addToCache.
C1_CacheTitlesUnique ==
    \A i, j \in 1..Len(recipeCache) :
        recipeCache[i].title = recipeCache[j].title => i = j

-----------------------------------------------------------------------------
(* Properties of the cache lookup and of search, checked under SpecSearch *)

\* The filters the lookup is examined for in every state.
C8_Filters ==
    [mealType : {"Lunch", "Dinner"},
     protein : {{"Any"}, {"Chicken", "Beef"}, {"Fish"}},
     maxTime : {15, 45, 60}, supermarket : {"Any"},
     difficulty : {"Any", "Easy", "Medium", "Hard"}]

Satisfies(r, f) ==
    /\ r.mealType = f.mealType
    /\ ("Any" \in f.protein \/ r.protein \in f.protein)
    /\ r.prepTimeMinutes <= f.maxTime
    /\ (f.difficulty = "Easy" => r.difficulty <= 2)
    /\ (f.difficulty = "Medium" => r.difficulty = 3)
    /\ (f.difficulty = "Hard" => r.difficulty >= 4)

Satisfying(cache, f) == {i \in 1..Len(cache) : Satisfies(cache[i], f)}

\* C8: for every cache content and every filter, getCachedMatches returns
\* exactly the cached recipes with the filter's meal type, a protein the
\* filter lists (or Any listed), prepTimeMinutes <= maxTime, and difficulty
\* <= 2 for Easy, = 3 for Medium, >= 4 for Hard; no other and none omitted.
C8_LookupIsExact ==
    \A f \in C8_Filters \cup {filters} :
        /\ Range(getCachedMatches(recipeCache, f))
              = {recipeCache[i] : i \in Satisfying(recipeCache, f)}
        /\ Len(getCachedMatches(recipeCache, f))
              = Cardinality(Satisfying(recipeCache, f))

\* C8 witness: the cache holds saved recipes and recipes fetched in this
\* session, and for some filter of each difficulty the lookup keeps some
\* entries and leaves out others.
C8_Witness ==
    /\ Len(recipeCache) > Len(SavedCache)
    /\ \A dif \in {"Easy", "Medium", "Hard"} :
          \E f \in C8_Filters :
              /\ f.difficulty = dif
              /\ getCachedMatches(recipeCache, f) # <<>>
              /\ \E i \in 1..Len(recipeCache) :
                    /\ recipeCache[i].mealType = f.mealType
                    /\ recipeCache[i].prepTimeMinutes <= f.maxTime
                    /\ recipeCache[i] \notin Range(getCachedMatches(recipeCache, f))

\* C9: a search calls the recipe oracle iff fewer than 9 cached recipes match
\* the current filter; with 9 or more it calls nothing and shows exactly 9
\* distinct cache entries, each matching the filter.
C9_Step ==
    LET n == Cardinality(Satisfying(recipeCache, filters))
    IN  /\ (fetches'.search > fetches.search) <=> (n < 9)
        /\ n >= 9 =>
              /\ fetches' = fetches
              /\ Len(recipes') = 9
              /\ \A i, j \in 1..Len(recipes') : recipes'[i] = recipes'[j] => i = j
              /\ \A i \in 1..Len(recipes') :
                    /\ recipes'[i] \in Range(recipeCache)
                    /\ Satisfies(recipes'[i], filters)
C9_SearchUsesCacheFromNine == [][lastOp'.op = "search" => C9_Step]_vars

\* C9 witness: a search found more than 9 matches among the cached recipes,
\* not all cached recipes matching, called nothing and shows 9.
C9_Witness ==
    /\ lastOp.op = "search"
    /\ fetches.search = 0
    /\ Len(recipes) = 9
    /\ Cardinality(Satisfying(recipeCache, filters)) > 9
    /\ Cardinality(Satisfying(recipeCache, filters)) < Len(recipeCache)

-----------------------------------------------------------------------------
(* Properties of the image patch, checked under SpecImage *)

ListPatched(prev, new, id, img) ==
    /\ Len(new) = Len(prev)
    /\ \A i \in 1..Len(prev) :
          new[i] = IF prev[i].id = id THEN [prev[i] EXCEPT !.image = img] ELSE prev[i]

\* C10: after handleUpdateRecipeImage(id, img) the recipes with that id in the
\* results, the favorites, the cache and the slots of the plan current at that
\* moment have image = img and every other recipe is as it was; when no
\* collection holds the id nothing changes.
C10_Step ==
    /\ ListPatched(recipes, recipes', lastOp'.id, lastOp'.img)
    /\ ListPatched(favoriteRecipes, favoriteRecipes', lastOp'.id, lastOp'.img)
    /\ ListPatched(recipeCache, recipeCache', lastOp'.id, lastOp'.img)
    /\ (weeklyPlan = 0) = (weeklyPlan' = 0)
    /\ weeklyPlan # 0 =>
          /\ DOMAIN planHeap'[weeklyPlan'] = DOMAIN planHeap[weeklyPlan]
          /\ ListPatched(CurrentPlanRecipes, CurrentPlanRecipes', lastOp'.id, lastOp'.img)
C10_PatchTouchesOnlyItsId == [][lastOp'.op = "patch" => C10_Step]_vars

-----------------------------------------------------------------------------
(* Properties of the load-more continuation and of the cache over time,     *)
(* checked under Spec                                                        *)

IsPrefix(s, t) == Len(s) <= Len(t) /\ SubSeq(t, 1, Len(s)) = s

\* C11: when a load-more continuation fires, whatever the results have become
\* since the fetch started, every recipe in the results just before it is
\* still there afterwards in the same order: the continuation only appends.
C11_ContinuationAppends ==
    [][lastOp'.op = "loadMoreDone" => IsPrefix(recipes, recipes')]_vars

\* C11 witness: a load-more continuation has fired while a search is in
\* flight (the search had emptied the results) and has appended to the list.
C11_Witness ==
    /\ lastOp.op = "loadMoreDone"
    /\ isLoading
    /\ fetches.search = 1
    /\ recipes # <<>>

-----------------------------------------------------------------------------
(* The cache over time, checked under SpecCache *)

\* C12: the cache is append-only: no step removes or reorders an entry; a
\* step that is not an image patch (an insert of candidates, some with cached
\* titles) leaves every cached entry as it was, id and all fields; an image
\* patch changes no field of an entry other than image.
C12_Step ==
    /\ Len(recipeCache') >= Len(recipeCache)
    /\ \A i \in 1..Len(recipeCache) :
          [recipeCache'[i] EXCEPT !.image = recipeCache[i].image] = recipeCache[i]
    /\ lastOp'.op # "patch" => IsPrefix(recipeCache, recipeCache')
C12_CacheAppendOnly == [][C12_Step]_vars

\* C12 witness: a cached entry got its image, and then an insert whose
\* candidates carried that entry's title ran: plan recipes of the cached
\* title got ids, the entry is as the patch left it.
C12_Witness ==
    /\ lastOp.op \in {"generate", "searchDone", "loadMoreDone"}
    /\ \E i \in 1..Len(recipeCache) :
          /\ recipeCache[i].image # NoImage
          /\ \E r \in Range(recipes) \cup Range(CurrentPlanRecipes) :
                /\ r.title = recipeCache[i].title
                /\ r.id > recipeCache[i].id
                /\ \A j \in 1..Len(recipeCache) : recipeCache[j].id # r.id

-----------------------------------------------------------------------------
(* Failed oracle calls, checked under Spec *)

\* C13: when every oracle call of a search fails (each fetchRecipes gives no
\* recipe, so no id is handed out), the search ends with empty results and
\* isLoading false, and the cache, the shopping list, the favorites and the
\* plan are as they were.
C13_Step ==
    /\ recipes' = <<>>
    /\ ~isLoading'
    /\ UNCHANGED <<recipeCache, shoppingList, favoriteRecipes, weeklyPlan, planHeap>>
C13_FailedSearchEndsEmpty ==
    [][(lastOp'.op = "searchDone" /\ nextId' = nextId) => C13_Step]_vars

\* C13 witness: a search whose three calls gave nothing has ended, with a
\* cache and a plan in place from before.
C13_Witness ==
    /\ lastOp.op = "searchDone"
    /\ recipes = <<>>
    /\ ~isLoading
    /\ recipeCache # <<>>
    /\ weeklyPlan # 0

-----------------------------------------------------------------------------
(* The shape of the weekly plan, checked under Spec *)

\* C14: whenever the weekly plan in state is non-null it maps each of the
\* seven weekday names to a DayPlan, whatever the plan oracle answered (an
\* empty answer or one that omits days leaves the previous plan in place).
C14_PlanCoversWeek ==
    weeklyPlan # 0 => DOMAIN planHeap[weeklyPlan] = Days

-----------------------------------------------------------------------------
(* saveWithQuotaCheck, checked under SpecSave *)

QuotaError(err) ==
    err.name \in {"QuotaExceededError", "NS_ERROR_DOM_QUOTA_REACHED"} \/ err.code = 22

\* b is a with every image field removed and nothing else changed.
ImagesRemoved(a, b) ==
    /\ Len(b) = Len(a)
    /\ \A i \in 1..Len(a) :
          /\ DOMAIN b[i] = (DOMAIN a[i]) \ {"image"}
          /\ \A f \in DOMAIN b[i] : b[i][f] = a[i][f]

\* C15: saveWithQuotaCheck makes one write of the data; when that write
\* fails with a quota error it makes exactly one more, of the same data with
\* every image field removed, and stops whatever that write does; when the
\* first write returns or fails otherwise it makes no further write.
C15_WritesOnceOrTwice ==
    writes # <<>> =>
        /\ writes[1].value = <<IF writes[1].key = "FAV" THEN favoriteRecipes
                                ELSE recipeCache>>
              \/ lastOp.op # "save"
        /\ IF writes[1].error # NoError /\ QuotaError(writes[1].error)
           THEN /\ Len(writes) = 2
                /\ writes[2].key = writes[1].key
                /\ ImagesRemoved(writes[1].value[1], writes[2].value[1])
           ELSE Len(writes) = 1

\* C15 witness: the write of a list holding a picture hit the quota, the
\* second write without pictures failed too, and the key holds what it held.
C15_Witness ==
    /\ lastOp.op = "save"
    /\ Len(writes) = 2
    /\ QuotaError(writes[1].error)
    /\ writes[2].error # NoError
    /\ \E i \in 1..Len(writes[1].value[1]) : writes[1].value[1][i].image # NoImage
    /\ storage[writes[1].key] = <<>>

-----------------------------------------------------------------------------
(* cleanIngredientText, checked under SpecNormalize *)

\* C16: cleanIngredientText("2 cups (diced) Tomatoes") is "tomato" and
\* cleanIngredientText("500g Chicken Breasts") is "chicken breast".
C16_DocumentedExamples ==
    cleaned # <<>> =>
        /\ rawText = TxtTomatoes => cleaned[1] = <<"t","o","m","a","t","o">>
        /\ rawText = TxtChickenBreasts =>
              cleaned[1] = <<"c","h","i","c","k","e","n"," ","b","r","e","a","s","t">>

\* C17: cleaning is idempotent: cleaning a cleaned text gives it back.
C17_Idempotent ==
    Len(cleaned) = 2 => cleaned[2] = cleaned[1]

\* C18: a cleaned text is in canonical form: only lowercase letters, digits
\* and whitespace, no digit in front, no whitespace at either end.
C18_Canonical ==
    cleaned # <<>> =>
        LET c == cleaned[1]
        IN  /\ \A i \in 1..Len(c) : c[i] \in LowerLetters \cup Digits \cup Whitespace
            /\ c # <<>> =>
                  /\ c[1] \notin Digits
                  /\ c[1] \notin Whitespace
                  /\ c[Len(c)] \notin Whitespace

-----------------------------------------------------------------------------
(* The price display, checked under SpecList *)

\* C19: for every item with a priced contribution the price shown is "$"
\* and the sum of the numeric prices with two decimals when every price
\* contains a number ("$3.50" and "$1.25" give "$4.75"), and otherwise the
\* price strings joined by " + ".
C19_PriceShown ==
    \A i \in 1..Len(shoppingList) :
        PricesOf(shoppingList[i]) # <<>> =>
            getItemPriceDisplay(shoppingList[i]) =
                IF \A k \in 1..Len(PricesOf(shoppingList[i])) :
                       \E j \in 1..Len(PricesOf(shoppingList[i])[k]) :
                           PricesOf(shoppingList[i])[k][j] \in Digits
                THEN <<<<"$">> \o toFixed2(SumCents(PricesOf(shoppingList[i])))>>
                ELSE <<JoinPlus(PricesOf(shoppingList[i]))>>

-----------------------------------------------------------------------------
(* The image request queue, checked under SpecQueue *)

\* C20: any two successive task initiations are at least minDelay apart,
\* whenever the tasks were added, also when the queue had drained before a
\* task was added.
C20_InitiationsSpaced ==
    \A k \in 1..(Len(started) - 1) : started[k + 1].at - started[k].at >= MinDelay

\* C20 witness: a task was added after the one before it had started and the
\* queue had drained, less than minDelay later; it started minDelay after it.
C20_Witness ==
    \E k \in 1..(Len(started) - 1) :
        /\ started[k + 1].added > started[k].at
        /\ started[k + 1].added - started[k].at < MinDelay
        /\ started[k + 1].at - started[k].at = MinDelay

-----------------------------------------------------------------------------
(* Properties of generateRecipeImage, checked under SpecTask *)

ImageParts(parts) == {i \in 1..Len(parts) : parts[i].inlineData # ""}
FirstImage(parts) ==
    parts[CHOOSE i \in ImageParts(parts) : \A j \in ImageParts(parts) : i <= j].inlineData
\* What the promise of a finished task is to hold.
Outcome(t) ==
    IF ~t.credential \/ t.answer[1].throws \/ ImageParts(t.answer[1].parts) = {}
    THEN Undefined
    ELSE DataUrl(FirstImage(t.answer[1].parts))

\* C21: every started image task makes at most one oracle request and calls
\* resolve at most once; once it has finished it has called resolve exactly
\* once, with the data of the image the oracle returned, or with undefined
\* when the credential is missing, the oracle failed or no part is an image.
C21_ResolvedOnce ==
    \A k \in 1..Len(imageTasks) :
        LET t == imageTasks[k]
        IN  /\ t.requests <= 1
            /\ Len(t.resolved) <= 1
            /\ ~t.awaiting => t.resolved = <<Outcome(t)>>

C21_Witness ==
    /\ \E k \in 1..Len(imageTasks) :
          /\ ~imageTasks[k].awaiting /\ imageTasks[k].credential
          /\ ~imageTasks[k].answer[1].throws
          /\ Cardinality(ImageParts(imageTasks[k].answer[1].parts)) = 2
          /\ imageTasks[k].resolved = <<DataUrl("imgA")>>
    /\ \E k \in 1..Len(imageTasks) :
          ~imageTasks[k].credential /\ imageTasks[k].resolved = <<Undefined>>
    /\ \E k \in 1..Len(imageTasks) :
          /\ ~imageTasks[k].awaiting /\ imageTasks[k].credential
          /\ imageTasks[k].answer[1].throws

-----------------------------------------------------------------------------
(* Properties of the favorites, checked under SpecImage *)

TitlesOf(list) == {list[i].title : i \in 1..Len(list)}
C22_Step ==
    lastOp'.op = "favorite" =>
        LET r == lastOp'.recipe[1]
        IN  IF r.title \in TitlesOf(favoriteRecipes)
            THEN /\ r.title \notin TitlesOf(favoriteRecipes')
                 /\ favoriteRecipes' =
                        SelectSeq(favoriteRecipes, LAMBDA f : f.title # r.title)
            ELSE favoriteRecipes' = Append(favoriteRecipes, r)

\* C22: starting from empty favorites no two favorites ever have the same
\* title; toggling a recipe whose title is among the favorites removes every
\* favorite of that title, whatever its id, and adds nothing; toggling any
\* other recipe appends it.
C22_FavoritesKeyedByTitle ==
    [][/\ C22_Step
       /\ \A i, j \in 1..Len(favoriteRecipes') :
             favoriteRecipes'[i].title = favoriteRecipes'[j].title => i = j]_vars

\* A favorite was just removed while another one stays, and a card of the
\* removed title with another id is on screen.
C22_Witness ==
    /\ lastOp.op = "favorite"
    /\ lastOp.recipe[1].title \notin TitlesOf(favoriteRecipes)
    /\ favoriteRecipes # <<>>
    /\ \E d \in Displayed :
          d.title = lastOp.recipe[1].title /\ d.id # lastOp.id

-----------------------------------------------------------------------------
(* The plan under late pictures, checked under SpecImage *)

SlotId(slot) == IF slot = <<>> THEN 0 ELSE slot[1].id
SlotIds(plan) ==
    [d \in DOMAIN plan |-> [lunch |-> SlotId(plan[d].lunch),
                            dinner |-> SlotId(plan[d].dinner)]]

\* C23: a picture that arrives for a request made under an earlier plan does
\* not change which recipes occupy the plan: after the patch every day slot
\* holds the recipe id it held just before, so a regenerated plan is never
\* replaced by the earlier one.
C23_LatePictureKeepsPlan ==
    [][lastOp'.op = "patch" =>
          /\ (weeklyPlan = 0) = (weeklyPlan' = 0)
          /\ weeklyPlan # 0 =>
                SlotIds(planHeap'[weeklyPlan']) = SlotIds(planHeap[weeklyPlan])]_vars

-----------------------------------------------------------------------------
(* Progress of the queue, checked under SpecLive *)

Queued(t) == \E i \in 1..Len(queue) : queue[i].task = t
Started(t) == \E k \in 1..Len(started) : started[k].task = t

\* C24: every task added to the queue is eventually started, whether or not
\* the tasks started before it have finished, failed or will ever finish,
\* provided timers fire.
C24_EveryTaskStarts ==
    \A t \in 1..MaxTasks : Queued(t) ~> Started(t)

\* C24 witness: a task that had to wait in the queue was started while the
\* first task is still waiting for the oracle and the second one has failed.
C24_Witness ==
    /\ Len(imageTasks) = 3
    /\ imageTasks[1].awaiting
    /\ ~imageTasks[2].awaiting /\ imageTasks[2].credential /\ imageTasks[2].answer[1].throws
    /\ started[3].at > started[3].added

-----------------------------------------------------------------------------
(* The process loop under interleaved add calls, checked under SpecQueue *)

\* C25: however add calls interleave with the process loop, at most one loop
\* is active (a loop is active exactly while it is suspended on its timeout,
\* and there is at most one timeout), each added task is started exactly once
\* and in the order of the add calls (the tasks are numbered in that order:
\* the started ones are 1..k in order and the queue holds the rest in order),
\* and whenever processing is false the queue is empty.
C25_OneLoopInOrder ==
    /\ Len(timer) <= 1
    /\ processing <=> timer # <<>>
    /\ \A k \in 1..Len(started) : started[k].task = k
    /\ \A i \in 1..Len(queue) : queue[i].task = Len(started) + i
    /\ ~processing => queue = <<>>

\* C25 witness: the third task was added while the loop was waiting to start
\* the second, and all three have been started.
C25_Witness ==
    /\ Len(started) = 3
    /\ started[2].added < started[3].added
    /\ started[3].added < started[2].at
    /\ ~processing

-----------------------------------------------------------------------------
(* The displayed results, checked under Spec *)

\* C26: after any searches and load-mores, whatever batches the oracle
\* returns and however the continuations interleave, no two recipes of the
\* displayed results have the same title.
C26_ResultTitlesUnique ==
    \A i, j \in 1..Len(recipes) : recipes[i].title = recipes[j].title => i = j

\* C27: starting from the empty state, after any searches, load-mores and plan
\* generations every recipe of the displayed results and of every slot of the
\* weekly plan has its title in the recipe cache.
C27_ShownTitlesCached ==
    \A r \in Range(recipes) \cup Range(CurrentPlanRecipes) :
        r.title \in TitlesOf(recipeCache)

\* C27 witness: results and a plan are shown, and a plan recipe is in the
\* cache by its title only (the cached entry of the title is another recipe).
C27_Witness ==
    /\ recipes # <<>>
    /\ \E r \in Range(CurrentPlanRecipes) :
          /\ r \notin Range(recipeCache)
          /\ r.title \in TitlesOf(recipeCache)

-----------------------------------------------------------------------------
(* Frame of the add branch and the add/remove round trip, checked under     *)
(* SpecList                                                                  *)

RECURSIVE AllContributions(_)
AllContributions(list) ==
    IF list = <<>> THEN <<>> ELSE Head(list).contributions \o AllContributions(Tail(list))
ContributionFor(r, k) ==
    [recipeId |-> r.id, recipeTitle |-> r.title,
     text |-> r.ingredients[k].item, price |-> r.ingredients[k].price]
Occurrences(seq, c) == Cardinality({j \in 1..Len(seq) : seq[j] = c})

C28_Step ==
    LET r   == lastOp'.recipe[1]
        n   == Len(r.ingredients)
        old == AllContributions(shoppingList)
        new == AllContributions(shoppingList')
        added == SelectSeq(new, LAMBDA c : c.recipeTitle = r.title)
    IN  /\ Len(new) = Len(old) + n
        /\ Len(added) = n
        /\ \A k \in 1..n :
              Occurrences(added, ContributionFor(r, k)) =
                  Cardinality({m \in 1..n : ContributionFor(r, m) = ContributionFor(r, k)})
        /\ Len(shoppingList') >= Len(shoppingList)
        /\ \A i \in 1..Len(shoppingList) :
              /\ shoppingList'[i].id = shoppingList[i].id
              /\ shoppingList'[i].name = shoppingList[i].name
              /\ shoppingList'[i].store = shoppingList[i].store
              /\ SelectSeq(shoppingList'[i].contributions,
                           LAMBDA c : c.recipeTitle # r.title)
                    = shoppingList[i].contributions

\* C28: adding a recipe with n ingredients raises the number of contributions
\* in the list by exactly n, the new ones being the recipe's id and title with
\* each ingredient's original text and price; every item there before keeps
\* its id, name, store and position and its earlier contributions in their
\* order, and no item is removed.
C28_AddFrame == [][lastOp'.op = "add" => C28_Step]_vars

\* C28 witness: a recipe with two ingredients or more was added to a list
\* another recipe had filled, and an item holds contributions of both.
C28_Witness ==
    /\ Len(hist) = 2
    /\ hist[1].op = "add" /\ hist[2].op = "add"
    /\ Len(hist[2].recipe[1].ingredients) >= 2
    /\ \E i \in 1..Len(shoppingList) : Cardinality(TitlesIn(shoppingList[i])) = 2

-----------------------------------------------------------------------------
(* Earlier values under the image patch, checked under SpecImage *)

\* C29: a mutation builds a new value and changes nothing reachable from an
\* earlier state: the day and recipe records of a plan value that was the
\* state at some moment are the same ever after, image patches included.
C29_EarlierPlansUntouched ==
    [][\A k \in 1..Len(planHeap) : planHeap'[k] = planHeap[k]]_vars

-----------------------------------------------------------------------------
(* The add/remove round trip, checked under SpecList *)

\* The recipes the round trip is asked of in the current state.
C30_Recipes ==
    {r \in Displayed : ~isRecipeInList(shoppingList, r.title) /\ Len(r.ingredients) >= 1}
\* The list after the recipe is toggled twice in a row.
C30_Twice(r) ==
    LET added == toggleShoppingList(shoppingList, shoppingList, r, nextItemId)
    IN  toggleShoppingList(added.list, added.list, r, added.next).list
MergesInto(r, item) ==
    IngredientsFor(r, item.store, item.name) # {}

\* C30: for any list and any recipe with an ingredient whose title is not in
\* the list, add followed by remove gives back the same items with the same
\* ids, names, stores, order and contributions; an item the recipe merged into
\* is unchecked afterwards and every other item keeps its checked flag.
C30_AddRemoveRestores ==
    \A r \in C30_Recipes :
        LET back == C30_Twice(r)
        IN  /\ Len(back) = Len(shoppingList)
            /\ \A i \in 1..Len(shoppingList) :
                  /\ back[i].id = shoppingList[i].id
                  /\ back[i].name = shoppingList[i].name
                  /\ back[i].store = shoppingList[i].store
                  /\ back[i].contributions = shoppingList[i].contributions
                  /\ back[i].checked =
                        (shoppingList[i].checked /\ ~MergesInto(r, shoppingList[i]))

\* C30 witness: a recipe was added to a list another recipe had filled and
\* removed again right after; it had merged into one item and not into another,
\* and both are there with the first recipe's contributions only.
C30_Witness ==
    /\ Len(hist) = 3
    /\ hist[1].op = "add" /\ hist[2].op = "add" /\ hist[3].op = "remove"
    /\ hist[2].recipe = hist[3].recipe
    /\ \E i \in 1..Len(shoppingList) : MergesInto(hist[2].recipe[1], shoppingList[i])
    /\ \E i \in 1..Len(shoppingList) : ~MergesInto(hist[2].recipe[1], shoppingList[i])
    /\ \A i \in 1..Len(shoppingList) :
          TitlesIn(shoppingList[i]) = {hist[1].recipe[1].title}

=============================================================================
